---- MODULE Spec2Model ----
(***************************************************************************)
(* The database reconstruction attack of attacks/reconstruction: the       *)
(* notebook reconstruction.ipynb drives the pipeline                       *)
(*   load data -> releases -> applications -> solver -> model ->           *)
(*   reconstructed table -> score                                          *)
(* through the functions of reconstruction_module (imported as rec).  The  *)
(* notebook's own statements are modelled from its cells; the functions of *)
(* reconstruction_module are modelled from the design document.            *)
(*                                                                         *)
(* The table is a miniature of the 500 x 6 PUMS extract: two non-sensitive *)
(* columns instead of five, a handful of rows, and incomes drawn from a    *)
(* small set.  An "n-way interaction" is a subgroup key that fixes n       *)
(* columns; the notebook's five-way interactions are the keys that fix     *)
(* every non-sensitive column.                                             *)
(***************************************************************************)
EXTENDS Integers, Sequences, FiniteSets, TLC

\* ------------------------------------------------------------------ bounds

\* Incomes of the table, and the values the solver may assign in the attack,
\* are Income(0) .. Income(MaxLevel).
MaxLevel == 2

\* The two demonstration cells solve over the multiples of 10000 between
\* -DemoBelow * 10000 and DemoSpan * 10000.
DemoSpan == 20

DemoBelow == 2

\* When no model lies among the income levels, the solver of the attack
\* searches the multiples of 2000 between -WideBelow * 2000 and
\* WideAbove * 2000 before it answers unsat.
WideBelow == 3

WideAbove == 6

\* ------------------------------------------------------- rational numbers

\* Released statistics are rationals (a mean of integers, the mean of the two
\* middle values); a rational is kept in lowest terms with a positive
\* denominator, so equal values have equal representations.
RECURSIVE GCD(_, _)
GCD(a, b) ==
    IF b = 0 THEN a ELSE GCD(b, a % b)

Abs(x) ==
    IF x < 0 THEN 0 - x ELSE x

Rat(num, den) ==
    LET g == GCD(Abs(num), den)
    IN  [num |-> num \div g, den |-> den \div g]

RatInt(v) ==
    [num |-> v, den |-> 1]

RatPlusInt(q, d) ==
    Rat(q.num + d * q.den, q.den)

RatTimesInt(q, n) ==
    IF n = 0 THEN RatInt(0) ELSE Rat(q.num * n, q.den)

\* ------------------------------------------------------------- the table

Rows == {1, 2, 3}

Columns == {"educ", "race"}

\* The wildcard of a subgroup key: the column is not part of the key.
AnyValue == 0

ColumnValues == {1, 2}

\* data.drop('income', axis = 1): the non-sensitive columns, fixed.
non_income_data ==
    [r \in Rows |->
        IF r = 3 THEN [educ |-> 1, race |-> 2] ELSE [educ |-> 1, race |-> 1]]

Income(k) ==
    1000 * k * (k + 1)

Incomes == {Income(k) : k \in 0..MaxLevel}

\* The noise the private releases carry, by statistic kind: the releaser is a
\* black box, so each vector is one answer it may give.  At most one kind is
\* perturbed at a time.
NoiseKinds == {"count", "mean", "median", "min", "max"}

NoNoise == [k \in NoiseKinds |-> 0]

NoiseVectors ==
    {NoNoise,
     [NoNoise EXCEPT !["count"] = 1],
     [NoNoise EXCEPT !["mean"] = 2000],
     [NoNoise EXCEPT !["median"] = 0 - 2000],
     [NoNoise EXCEPT !["min"] = 2000],
     [NoNoise EXCEPT !["max"] = 0 - 2000]}

VARIABLES
    orig_data,      \* the income column, by row: the ground truth
    noise,          \* the noise of the private releases
    dicts,          \* count_dict, mean_dict, median_dict, min_dict, max_dict
    priv_dicts,     \* the same five with the priv_ prefix
    elem_dict,      \* the SymbolicRows of the finest subgroups, exact counts
    priv_elem_dict, \* the same by the private counts
    pc              \* the statement the notebook is at

\* ------------------------------------------------------------- subgroups

Matches(key, r) ==
    \A c \in Columns : key[c] = AnyValue \/ non_income_data[r][c] = key[c]

SubgroupRows(key) ==
    {r \in Rows : Matches(key, r)}

\* rec.get_plausible_variable_combinations: every key of 1..K columns that
\* some row matches.
plausible_variable_combinations ==
    {key \in [Columns -> ColumnValues \cup {AnyValue}] :
        /\ \E c \in Columns : key[c] # AnyValue
        /\ SubgroupRows(key) # {}}

\* The combinations that fix every column.
five_way_interactions ==
    {key \in plausible_variable_combinations : \A c \in Columns : key[c] # AnyValue}

\* The finest subgroups inside a subgroup.
Refines(full, key) ==
    \A c \in Columns : key[c] = AnyValue \/ full[c] = key[c]

\* ------------------------------------------------------------ statistics

RECURSIVE SumOver(_, _)
SumOver(f, S) ==
    IF S = {} THEN 0
    ELSE LET x == CHOOSE y \in S : TRUE
         IN  f[x] + SumOver(f, S \ {x})

\* The incomes of a set of rows, ascending.
RECURSIVE SortedIncomes(_, _)
SortedIncomes(income, S) ==
    IF S = {} THEN <<>>
    ELSE LET r == CHOOSE x \in S : \A y \in S : income[x] <= income[y]
         IN  <<income[r]>> \o SortedIncomes(income, S \ {r})

Count(key) ==
    Cardinality(SubgroupRows(key))

Mean(income, key) ==
    Rat(SumOver(income, SubgroupRows(key)), Count(key))

Median(income, key) ==
    LET s == SortedIncomes(income, SubgroupRows(key))
        n == Len(s)
    IN  IF n % 2 = 1 THEN RatInt(s[(n + 1) \div 2])
        ELSE Rat(s[n \div 2] + s[n \div 2 + 1], 2)

Min(income, key) ==
    RatInt(SortedIncomes(income, SubgroupRows(key))[1])

Max(income, key) ==
    RatInt(SortedIncomes(income, SubgroupRows(key))[Count(key)])

\* rec.create_dicts: the exact releases and the private ones, which are the
\* exact ones plus the releaser's noise.
Releases(income, nz) ==
    [key \in plausible_variable_combinations |->
        [count  |-> Count(key) + nz["count"],
         mean   |-> RatPlusInt(Mean(income, key), nz["mean"]),
         median |-> RatPlusInt(Median(income, key), nz["median"]),
         min    |-> RatPlusInt(Min(income, key), nz["min"]),
         max    |-> RatPlusInt(Max(income, key), nz["max"])]]

\* ------------------------------------------------------------ constraints

\* An application is one constraint over SymbolicRows (solver variables):
\*   "le": vars[1] <= vars[2];  "eq": the sum of vars equals rhs;
\*   "or": some variable of vars equals rhs.
\* Two applications are the same application iff they are the same record,
\* which is what list(set(applications)) removes.
Le(a, b) ==
    [op |-> "le", vars |-> <<a, b>>, rhs |-> RatInt(0)]

SumEq(vs, q) ==
    [op |-> "eq", vars |-> vs, rhs |-> q]

OrEq(vs, v) ==
    [op |-> "or", vars |-> vs, rhs |-> RatInt(v)]

RECURSIVE SeqSum(_, _)
SeqSum(m, vs) ==
    IF vs = <<>> THEN 0 ELSE m[Head(vs)] + SeqSum(m, Tail(vs))

\* Substituting the assignment m into the constraint c: plain arithmetic.
Holds(c, m) ==
    CASE c.op = "le" -> m[c.vars[1]] <= m[c.vars[2]]
      [] c.op = "eq" -> c.rhs.den * SeqSum(m, c.vars) = c.rhs.num
      [] c.op = "or" -> \E i \in DOMAIN c.vars : c.rhs.den * m[c.vars[i]] = c.rhs.num

VarsOfConstraint(c) ==
    {c.vars[i] : i \in DOMAIN c.vars}

VarsOf(store) ==
    UNION {VarsOfConstraint(c) : c \in store}

\* --------------------------------------------------------------- solver

\* The decision procedure (z3): every assignment of the store's variables,
\* over dom, that satisfies every constraint.  The search assigns one
\* variable at a time and drops a partial assignment as soon as a constraint
\* whose variables are all assigned fails.

\* The constraints whose last unassigned variable is x.
Closing(store, rest, x) ==
    {c \in store : VarsOfConstraint(c) \cap rest = {x}}

\* Those among them that determine x: the equalities.
Determining(closing) ==
    {c \in closing : c.op = "eq"}

\* The next variable to assign: one that an equality over otherwise assigned
\* variables determines, when there is one.
PickVariable(store, rest) ==
    LET forced == {x \in rest : Determining(Closing(store, rest, x)) # {}}
    IN  IF forced # {} THEN CHOOSE x \in forced : TRUE
        ELSE CHOOSE x \in rest : TRUE

RECURSIVE Occurrences(_, _)
Occurrences(vs, v) ==
    IF vs = <<>> THEN 0
    ELSE (IF Head(vs) = v THEN 1 ELSE 0) + Occurrences(Tail(vs), v)

RECURSIVE SumAssigned(_, _, _)
SumAssigned(m, vs, v) ==
    IF vs = <<>> THEN 0
    ELSE (IF Head(vs) = v THEN 0 ELSE m[Head(vs)]) + SumAssigned(m, Tail(vs), v)

\* The values worth trying for v on top of the partial assignment m: the one
\* value a determining equality leaves, or all of dom.
Candidates(determining, dom, m, v) ==
    IF determining = {} THEN dom
    ELSE LET c == CHOOSE e \in determining : TRUE
         IN  {d \in dom : c.rhs.den * (SumAssigned(m, c.vars, v)
                                         + Occurrences(c.vars, v) * d) = c.rhs.num}

RECURSIVE Extend(_, _, _, _)
Extend(store, dom, ms, rest) ==
    IF rest = {} \/ ms = {} THEN ms
    ELSE LET v == PickVariable(store, rest)
             closing == Closing(store, rest, v)
             determining == Determining(closing)
             grown == UNION {{[x \in DOMAIN m \cup {v} |-> IF x = v THEN d ELSE m[x]] :
                                 d \in Candidates(determining, dom, m, v)} : m \in ms}
         IN  Extend(store, dom, {m \in grown : \A c \in closing : Holds(c, m)},
                    rest \ {v})

NoAssignment == [x \in {} |-> 0]

Models(store, dom) ==
    Extend(store, dom, {NoAssignment}, VarsOf(store))

\* What a check returns: a model, or nothing when the store is unsatisfiable.
\* Unset stands for "not computed yet".
Unset == [status |-> "unset", val |-> NoAssignment]

Unsat == [status |-> "unsat", val |-> NoAssignment]

Sat(m) == [status |-> "sat", val |-> m]

\* One check: any model the procedure may return, or Unsat when there is none.
Answers(store, dom) ==
    LET ms == Models(store, dom)
    IN  IF ms = {} THEN {Unsat} ELSE {Sat(m) : m \in ms}

\* One check with a preferred range: a model of the preferred range when
\* the store has one there, any model of the wider range otherwise.
AnswersWithin(store, preferred, wider) ==
    LET ms == Models(store, preferred)
    IN  IF ms # {} THEN {Sat(m) : m \in ms} ELSE Answers(store, wider)

\* ------------------------------------------------------------- encoder

\* A fixed enumeration order of a set of keys.
RECURSIVE KeySeq(_)
KeySeq(S) ==
    IF S = {} THEN <<>>
    ELSE LET k == CHOOSE x \in S : TRUE
         IN  <<k>> \o KeySeq(S \ {k})

RECURSIVE Flatten(_)
Flatten(ss) ==
    IF ss = <<>> THEN <<>> ELSE Head(ss) \o Flatten(Tail(ss))

\* rec.create_elem_dicts: the SymbolicRows of every finest subgroup, as many
\* as its released count; the name of one is '{key}_{i}', i from 0.
ElemDict(d) ==
    [key \in five_way_interactions |-> [i \in 1..d[key].count |-> <<key, i - 1>>]]

\* The SymbolicRows of a subgroup: those of the finest subgroups inside it.
ElemsOf(key, ed) ==
    LET inside == KeySeq({f \in five_way_interactions : Refines(f, key)})
    IN  Flatten([i \in 1..Len(inside) |-> ed[inside[i]]])

\* x_0 <= x_1 <= ... <= x_{n-1} within one finest subgroup.
OrderingOf(x) ==
    [i \in 1..(Len(x) - 1) |-> Le(x[i], x[i + 1])]

OrderingApplications(key, ed) ==
    LET inside == KeySeq({f \in five_way_interactions : Refines(f, key)})
    IN  Flatten([i \in 1..Len(inside) |-> OrderingOf(ed[inside[i]])])

MeanApplication(key, d, ed) ==
    <<SumEq(ElemsOf(key, ed), RatTimesInt(d[key].mean, d[key].count))>>

\* x is 1-indexed here: x_i of the design is x[i + 1].
MedianApplication(x, value) ==
    LET n == Len(x)
    IN  IF n % 2 = 1 THEN <<SumEq(<<x[(n - 1) \div 2 + 1]>>, value)>>
        ELSE <<SumEq(<<x[n \div 2], x[n \div 2 + 1]>>, RatTimesInt(value, 2))>>

MinApplication(x, value) ==
    <<SumEq(<<x[1]>>, value)>>

MaxApplication(x, value) ==
    <<SumEq(<<x[Len(x)]>>, value)>>

\* The statistics of order (median, min, max) are equalities on indices of an
\* ordered chain, so they are encoded for the subgroups that are one chain:
\* the finest ones.
OrderStatisticApplications(key, d, ed, cfg) ==
    IF key \notin five_way_interactions \/ Len(ed[key]) = 0 THEN <<>>
    ELSE (IF cfg.use_medians THEN MedianApplication(ed[key], d[key].median) ELSE <<>>)
         \o (IF cfg.use_mins THEN MinApplication(ed[key], d[key].min) ELSE <<>>)
         \o (IF cfg.use_maxes THEN MaxApplication(ed[key], d[key].max) ELSE <<>>)

\* encode: the applications of one subgroup; none when its count is below
\* the suppression threshold.
Encode(key, d, ed, cfg) ==
    IF d[key].count < cfg.lowest_allowable_count THEN <<>>
    ELSE OrderingApplications(key, ed)
         \o MeanApplication(key, d, ed)
         \o OrderStatisticApplications(key, d, ed, cfg)

\* The applications of every plausible combination, as one list.
ApplicationList(d, ed, cfg) ==
    LET keys == KeySeq(plausible_variable_combinations)
    IN  Flatten([i \in 1..Len(keys) |-> Encode(keys[i], d, ed, cfg)])

\* rec.get_applications: the list from the exact releases and the list from
\* the private ones.
get_applications(cfg) ==
    [exact |-> ApplicationList(dicts, elem_dict, cfg),
     private |-> ApplicationList(priv_dicts, priv_elem_dict, cfg)]

Range(list) ==
    {list[i] : i \in DOMAIN list}

\* The entries of list that are not in seen, appended to seen one by one.
RECURSIVE Unique(_, _)
Unique(list, seen) ==
    IF list = <<>> THEN seen
    ELSE Unique(Tail(list), IF Head(list) \in Range(seen) THEN seen
                            ELSE Append(seen, Head(list)))

\* The list as get_applications returned it, repetitions kept.
Deduplicate_Keep(list) ==
    list

\* list(set(applications)): the list without its repetitions.  Python leaves
\* the order of the result open; the order of first occurrence stands for it,
\* and nothing downstream reads the order.
Deduplicate(list) ==
    Unique(list, <<>>)

Config(lowest, medians, mins, maxes) ==
    [lowest_allowable_count |-> lowest, use_medians |-> medians,
     use_mins |-> mins, use_maxes |-> maxes]

\* The thresholds a scenario may be run with; the notebook uses 1 and 10.
LowestAllowableCounts == {1, 2, 10}

Configs ==
    {Config(t, a, b, c) : t \in LowestAllowableCounts, a \in BOOLEAN,
                          b \in BOOLEAN, c \in BOOLEAN}

NotConfigured == Config(0 - 1, FALSE, FALSE, FALSE)

\* Calls with a threshold below 1.
MalformedConfigs ==
    {Config(0, a, b, c) : a \in BOOLEAN, b \in BOOLEAN, c \in BOOLEAN}

\* The configuration get_applications refuses: a threshold below 1, or kinds
\* that leave a subgroup that passes the threshold without a constraint.
ConfigurationError(d, ed, c) ==
    \/ c.lowest_allowable_count < 1
    \/ \E key \in plausible_variable_combinations :
          /\ d[key].count >= c.lowest_allowable_count
          /\ Encode(key, d, ed, c) = <<>>

\* ------------------------------------------------- the demonstration cells

DemoValues == {10000 * k : k \in (0 - DemoBelow)..DemoSpan}

i_1 == <<"i", 1>>

i_2 == <<"i", 2>>

i_3 == <<"i", 3>>

\* The first cell without its median, i_2 == 50_000.
SingleAssignmentCell_NoMedian ==
    {Le(i_1, i_2), Le(i_2, i_3), SumEq(<<i_1>>, RatInt(0)),
     SumEq(<<i_1, i_2, i_3>>, RatInt(180000))}

\* The second cell without its minimum, i_1 == 0.
ManyAssignmentsCell_NoMin ==
    {Le(i_1, i_2), Le(i_2, i_3), SumEq(<<i_1, i_2, i_3>>, RatInt(180000))}

\* z3.solve(i_1 <= i_2, i_2 <= i_3, i_1 == 0, i_2 == 50_000,
\*          z3.Sum(i_1, i_2, i_3) == 180_000)
SingleAssignmentCell ==
    {Le(i_1, i_2), Le(i_2, i_3), SumEq(<<i_1>>, RatInt(0)),
     SumEq(<<i_2>>, RatInt(50000)), SumEq(<<i_1, i_2, i_3>>, RatInt(180000))}

\* z3.solve(i_1 <= i_2, i_2 <= i_3, i_1 == 0, z3.Sum(i_1, i_2, i_3) == 180_000)
ManyAssignmentsCell ==
    {Le(i_1, i_2), Le(i_2, i_3), SumEq(<<i_1>>, RatInt(0)),
     SumEq(<<i_1, i_2, i_3>>, RatInt(180000))}

\* ------------------------------------------------ background knowledge

\* The subgroup the attacker knows a member's income of, and the subgroup
\* known to hold one person.
group_1_def == [educ |-> 1, race |-> 1]

group_2_def == [educ |-> 1, race |-> 2]

\* [z3.Int('{0}_{1}'.format(group_1_def, i)) for i in range(count_dict[group_1_def])]
group_1_elems ==
    [i \in 1..dicts[group_1_def].count |-> <<group_1_def, i - 1>>]

\* The fact laid on the first SymbolicRow of the subgroup alone.
SomeRowEquals_FirstRow(value) ==
    SumEq(<<group_1_elems[1]>>, RatInt(value))

\* z3.Or([elem == value for elem in group_1_elems])
SomeRowEquals(value) ==
    OrEq(group_1_elems, value)

\* z3.Int('{0}_{1}'.format(group_2_def, 0)) == value
UniqueRowEquals(value) ==
    SumEq(<<(<<group_2_def, 0>>)>>, RatInt(value))

\* What the attacker holds true: some row of the subgroup has this income.
Fact(group, value) ==
    [group |-> group, value |-> value]

\* The income of the one person of group_2_def.
group_2_income ==
    orig_data[CHOOSE r \in Rows : non_income_data[r] = group_2_def]

\* --------------------------------------------------------- reconstructor

\* The SymbolicRow of a row: its finest subgroup and its local index there,
\* the rank of the row among the subgroup's rows.
SymbolicRowOf(r) ==
    <<non_income_data[r],
      Cardinality({q \in SubgroupRows(non_income_data[r]) : q < r})>>

\* rec.reconstruct_data: the income column read off the model; a row whose
\* SymbolicRow the model does not value carries nothing, and without a model
\* the result is empty.
reconstruct_data(m) ==
    IF m.status # "sat" THEN [r \in {} |-> 0]
    ELSE [r \in {q \in Rows : SymbolicRowOf(q) \in DOMAIN m.val} |->
             m.val[SymbolicRowOf(r)]]

\* A band of $20,000 where $2,000 is meant.
Within2k_Wide == 10 * 2000

\* 'incomes resconstructed within $2,000' and 'within $5,000'
Within2k == 2000

Within5k == 5000

CountWithin(orig, recon, bound) ==
    Cardinality({r \in DOMAIN recon : Abs(orig[r] - recon[r]) <= bound})

\* rec.compare_data: (exact, within_2k, within_5k)
compare_data(orig, recon) ==
    <<CountWithin(orig, recon, 0), CountWithin(orig, recon, Within2k),
      CountWithin(orig, recon, Within5k)>>

WideValues == {2000 * k : k \in (0 - WideBelow)..WideAbove}

\* rec.check_solution: solver.check(), then the model when there is one.
check_solution(store) ==
    AnswersWithin(store, Incomes, WideValues)

\* if model: ... -- a model is falsy when absent, and when it values nothing.
Truthy(m) ==
    m.status = "sat" /\ DOMAIN m.val # {}

VARIABLES
    solved,             \* what the z3.solve call of the running cell printed
    cfg,                \* the arguments get_applications was called with
    applications,       \* list(set(applications))
    priv_applications,  \* list(set(priv_applications))
    solver,             \* the constraint store of the exact releases
    knowledge,          \* the background facts added to solver so far
    priv_solver,        \* the constraint store of the private releases
    model,              \* rec.check_solution(solver)
    priv_model,         \* rec.check_solution(priv_solver)
    recon_data,         \* the reconstructed income column
    scores,             \* (exact, within_2k, within_5k), <<>> before scoring
    printed,            \* the lines the attack printed
    \* Attack #2, a cell of its own with variables of its own
    cfg_2,              \* the arguments of its get_applications call
    applications_2,     \* list(set(applications_2))
    priv_applications_2,
    solver_2,           \* its store of the exact releases
    priv_solver_2,      \* its store of the private releases
    model_2,            \* rec.check_solution(solver_2)
    recon_data_2,       \* its reconstructed income column
    scores_2,           \* (exact_2, within_2k_2, within_5k_2)
    printed_2,          \* the output of its cell
    pc_2                \* the statement Attack #2 is at

released == <<dicts, priv_dicts, elem_dict, priv_elem_dict>>

\* The variables of the first attack, and those of Attack #2.
first == <<cfg, applications, priv_applications, solver, knowledge, priv_solver,
           model, priv_model, recon_data, scores, printed, pc>>

second == <<cfg_2, applications_2, priv_applications_2, solver_2, priv_solver_2,
            model_2, recon_data_2, scores_2, printed_2, pc_2>>

vars == <<orig_data, noise, released, solved, first, second>>

\* The setup cell has run: the data is loaded and the releases are computed.
Loaded ==
    /\ orig_data \in [Rows -> Incomes]
    /\ noise \in NoiseVectors
    /\ dicts = Releases(orig_data, NoNoise)
    /\ priv_dicts = Releases(orig_data, noise)
    /\ elem_dict = ElemDict(dicts)
    /\ priv_elem_dict = ElemDict(priv_dicts)
    /\ solved = Unset
    /\ cfg = NotConfigured
    /\ applications = <<>>
    /\ priv_applications = <<>>
    /\ solver = {}
    /\ knowledge = {}
    /\ priv_solver = {}
    /\ model = Unset
    /\ priv_model = Unset
    /\ recon_data = [r \in {} |-> 0]
    /\ scores = <<>>
    /\ printed = <<>>
    /\ cfg_2 = NotConfigured
    /\ applications_2 = <<>>
    /\ priv_applications_2 = <<>>
    /\ solver_2 = {}
    /\ priv_solver_2 = {}
    /\ model_2 = Unset
    /\ recon_data_2 = [r \in {} |-> 0]
    /\ scores_2 = <<>>
    /\ printed_2 = <<>>

\* The attack starts at its first cell, "set applications".
Init ==
    /\ Loaded
    /\ pc = "set_applications"
    /\ pc_2 = "not_run"

\* The two demonstration cells come before it and leave nothing behind but
\* their output; they are run on their own.
DemoInit ==
    /\ Loaded
    /\ pc = "demo1"
    /\ pc_2 = "not_run"

\* The cell "single satisfying assignment".
Demo1 ==
    /\ pc = "demo1"
    /\ solved' \in Answers(SingleAssignmentCell, DemoValues)
    /\ pc' = "demo2_1"
    /\ UNCHANGED <<orig_data, noise, released, second, cfg, applications, priv_applications, solver,
                   knowledge, priv_solver, model, priv_model, recon_data, scores, printed>>

Demo2Next(at) ==
    CASE at = "demo2_1" -> "demo2_2"
      [] at = "demo2_2" -> "demo2_3"
      [] at = "demo2_3" -> "demos_done"

\* The cell "many satisfying assignments": three z3.solve calls, one a step.
Demo2 ==
    /\ pc \in {"demo2_1", "demo2_2", "demo2_3"}
    /\ solved' \in Answers(ManyAssignmentsCell, DemoValues)
    /\ pc' = Demo2Next(pc)
    /\ UNCHANGED <<orig_data, noise, released, second, cfg, applications, priv_applications, solver,
                   knowledge, priv_solver, model, priv_model, recon_data, scores, printed>>

\* get_applications called without lowest_allowable_count, so with 1.
SetApplications_DefaultThreshold ==
    /\ pc = "set_applications"
    /\ \E c \in Configs :
          LET both == get_applications([c EXCEPT !.lowest_allowable_count = 1])
          IN  /\ cfg' = c
              /\ applications' = Deduplicate(both.exact)
              /\ priv_applications' = Deduplicate(both.private)
    /\ pc' = "init_solvers"
    /\ UNCHANGED <<orig_data, noise, released, second, solved, solver, knowledge, priv_solver, model, priv_model,
                   recon_data, scores, printed>>

\* get_applications taking whatever configuration it is handed.
SetApplications_Unchecked ==
    /\ pc = "set_applications"
    /\ \E c \in Configs \cup MalformedConfigs :
          LET both == get_applications(c)
          IN  /\ cfg' = c
              /\ applications' = Deduplicate(both.exact)
              /\ priv_applications' = Deduplicate(both.private)
    /\ pc' = "init_solvers"
    /\ UNCHANGED <<orig_data, noise, released, second, solved, solver, knowledge, priv_solver, model, priv_model,
                   recon_data, scores, printed>>

\* "set applications" and "remove duplicate applications".  A configuration
\* error raised by get_applications ends the cell, and the run, there.
SetApplications ==
    /\ pc = "set_applications"
    /\ \E c \in Configs \cup MalformedConfigs :
          IF ConfigurationError(dicts, elem_dict, c)
          THEN /\ cfg' = c
               /\ pc' = "config_error"
               /\ UNCHANGED <<applications, priv_applications>>
          ELSE LET both == get_applications(c)
               IN  /\ cfg' = c
                   /\ applications' = Deduplicate(both.exact)
                   /\ priv_applications' = Deduplicate(both.private)
                   /\ pc' = "init_solvers"
    /\ UNCHANGED <<orig_data, noise, released, second, solved, solver, knowledge, priv_solver, model, priv_model,
                   recon_data, scores, printed>>

\* rec.applications_to_solver: a new store holding the applications.
applications_to_solver(apps) ==
    Range(apps)

\* The two lists handed to the wrong stores.
InitSolvers_Swapped ==
    /\ pc = "init_solvers"
    /\ solver' = applications_to_solver(priv_applications)
    /\ priv_solver' = applications_to_solver(applications)
    /\ pc' = "solvers_ready"
    /\ UNCHANGED <<orig_data, noise, released, second, solved, cfg, applications, priv_applications,
                   knowledge, model, priv_model, recon_data, scores, printed>>

\* "initialize solvers"
InitSolvers ==
    /\ pc = "init_solvers"
    /\ solver' = applications_to_solver(applications)
    /\ priv_solver' = applications_to_solver(priv_applications)
    /\ pc' = "solvers_ready"
    /\ UNCHANGED <<orig_data, noise, released, second, solved, cfg, applications, priv_applications,
                   knowledge, model, priv_model, recon_data, scores, printed>>

\* "add applications encoding existing attacker knowledge" (Attack #3):
\* solver_3.add(z3.Or(...)), then solver_3.add(... == value).
AddKnowledge1 ==
    /\ pc = "solvers_ready"
    /\ \E value \in Incomes :
          /\ solver' = solver \cup {SomeRowEquals(value)}
          /\ knowledge' = knowledge \cup {Fact(group_1_def, value)}
    /\ pc' = "knowledge_1"
    /\ UNCHANGED <<orig_data, noise, released, second, solved, cfg, applications, priv_applications,
                   priv_solver, model, priv_model, recon_data, scores, printed>>

\* The second piece of knowledge is taken to be exact; the first may be wrong.
AddKnowledge2 ==
    /\ pc = "knowledge_1"
    /\ solver' = solver \cup {UniqueRowEquals(group_2_income)}
    /\ knowledge' = knowledge \cup {Fact(group_2_def, group_2_income)}
    /\ pc' = "knowledge_2"
    /\ UNCHANGED <<orig_data, noise, released, second, solved, cfg, applications, priv_applications,
                   priv_solver, model, priv_model, recon_data, scores, printed>>

\* check_solution on a store built before the knowledge was added.
CheckSolution_BeforeKnowledge ==
    /\ pc \in {"solvers_ready", "knowledge_2"}
    /\ model' \in check_solution(applications_to_solver(applications))
    /\ printed' = Append(printed, IF Truthy(model') THEN "non-private: sat"
                                  ELSE "non-private: unsat")
    /\ pc' = "reconstruct"
    /\ UNCHANGED <<orig_data, noise, released, second, solved, cfg, applications, priv_applications,
                   solver, knowledge, priv_solver, priv_model, recon_data, scores>>

\* "get results (models)": check_solution, then the sat/unsat line.
CheckSolution ==
    /\ pc \in {"solvers_ready", "knowledge_2"}
    /\ model' \in check_solution(solver)
    /\ printed' = Append(printed, IF Truthy(model') THEN "non-private: sat"
                                  ELSE "non-private: unsat")
    /\ pc' = "reconstruct"
    /\ UNCHANGED <<orig_data, noise, released, second, solved, cfg, applications, priv_applications,
                   solver, knowledge, priv_solver, priv_model, recon_data, scores>>

\* The table read off the model of the other attack.
ReconstructData_OtherModel ==
    /\ pc = "reconstruct"
    /\ recon_data' = reconstruct_data(model_2)
    /\ pc' = "compare"
    /\ UNCHANGED <<orig_data, noise, released, second, solved, cfg, applications, priv_applications,
                   solver, knowledge, priv_solver, model, priv_model, scores, printed>>

\* "attempt to resconstruct data"
ReconstructData ==
    /\ pc = "reconstruct"
    /\ recon_data' = reconstruct_data(model)
    /\ pc' = "compare"
    /\ UNCHANGED <<orig_data, noise, released, second, solved, cfg, applications, priv_applications,
                   solver, knowledge, priv_solver, model, priv_model, scores, printed>>

\* "compare original and reconstructed data": the call hands both tables
\* back as they were, with the three counts.
CompareData ==
    /\ pc = "compare"
    /\ orig_data' = orig_data
    /\ recon_data' = recon_data
    /\ scores' = compare_data(orig_data, recon_data)
    /\ pc' = "check_private"
    /\ UNCHANGED <<noise, released, second, solved, cfg, applications, priv_applications,
                   solver, knowledge, priv_solver, model, priv_model, printed>>

\* The last cell run on the store of the exact releases.
CheckPrivate_ExactStore ==
    /\ pc = "check_private"
    /\ priv_model' \in check_solution(solver)
    /\ printed' = Append(printed, IF Truthy(priv_model') THEN "private: sat"
                                  ELSE "private: unsat")
    /\ pc' = "done"
    /\ UNCHANGED <<orig_data, noise, released, second, solved, cfg, applications, priv_applications,
                   solver, knowledge, priv_solver, model, recon_data, scores>>

\* The last code cell: check_solution on the private store, then its line.
CheckPrivate ==
    /\ pc = "check_private"
    /\ priv_model' \in check_solution(priv_solver)
    /\ printed' = Append(printed, IF Truthy(priv_model') THEN "private: sat"
                                  ELSE "private: unsat")
    /\ pc' = "done"
    /\ UNCHANGED <<orig_data, noise, released, second, solved, cfg, applications, priv_applications,
                   solver, knowledge, priv_solver, model, recon_data, scores>>

\* ------------------------------------------------------------- Attack #2

\* The configurations of Attack #1 and Attack #2: medians on, mins and maxes
\* off, lowest_allowable_count 1 or 10.
Configs_2 ==
    {Config(1, TRUE, FALSE, FALSE), Config(10, TRUE, FALSE, FALSE)}

\* "set applications" and "remove duplicate applications" of Attack #2.
SetApplications_2 ==
    /\ pc_2 = "set_applications"
    /\ \E c \in Configs_2 :
          LET both == get_applications(c)
          IN  /\ cfg_2' = c
              /\ applications_2' = Deduplicate(both.exact)
              /\ priv_applications_2' = Deduplicate(both.private)
    /\ pc_2' = "init_solvers"
    /\ UNCHANGED <<orig_data, noise, released, solved, first, solver_2, priv_solver_2,
                   model_2, recon_data_2, scores_2, printed_2>>

\* Attack #2 loading the list of the first attack.
InitSolvers_2_FirstList ==
    /\ pc_2 = "init_solvers"
    /\ solver_2' = applications_to_solver(applications)
    /\ priv_solver_2' = applications_to_solver(priv_applications)
    /\ pc_2' = "solvers_ready"
    /\ UNCHANGED <<orig_data, noise, released, solved, first, cfg_2, applications_2,
                   priv_applications_2, model_2, recon_data_2, scores_2, printed_2>>

\* "initialize solvers" of Attack #2.
InitSolvers_2 ==
    /\ pc_2 = "init_solvers"
    /\ solver_2' = applications_to_solver(applications_2)
    /\ priv_solver_2' = applications_to_solver(priv_applications_2)
    /\ pc_2' = "solvers_ready"
    /\ UNCHANGED <<orig_data, noise, released, solved, first, cfg_2, applications_2,
                   priv_applications_2, model_2, recon_data_2, scores_2, printed_2>>

\* "get results (models)" of Attack #2.
CheckSolution_2 ==
    /\ pc_2 = "solvers_ready"
    /\ model_2' \in check_solution(solver_2)
    /\ printed_2' = Append(printed_2, IF Truthy(model_2') THEN "non-private: sat"
                                      ELSE "non-private: unsat")
    /\ pc_2' = "reconstruct"
    /\ UNCHANGED <<orig_data, noise, released, solved, first, cfg_2, applications_2,
                   priv_applications_2, solver_2, priv_solver_2, recon_data_2, scores_2>>

\* "attempt to resconstruct data" of Attack #2.
ReconstructData_2 ==
    /\ pc_2 = "reconstruct"
    /\ recon_data_2' = reconstruct_data(model_2)
    /\ pc_2' = "compare"
    /\ UNCHANGED <<orig_data, noise, released, solved, first, cfg_2, applications_2,
                   priv_applications_2, solver_2, priv_solver_2, model_2, scores_2,
                   printed_2>>

\* "compare original and reconstructed data" of Attack #2; orig_data is the
\* table of the setup cell, assigned again from what the call hands back.
CompareData_2 ==
    /\ pc_2 = "compare"
    /\ orig_data' = orig_data
    /\ recon_data_2' = recon_data_2
    /\ scores_2' = compare_data(orig_data, recon_data_2)
    /\ pc_2' = "done"
    /\ UNCHANGED <<noise, released, solved, first, cfg_2, applications_2,
                   priv_applications_2, solver_2, priv_solver_2, model_2, printed_2>>

\* The first attack and Attack #2 started side by side on the exact
\* releases of a table of the two lowest incomes, their statements
\* interleaved in every order.
TwoAttacksInit ==
    /\ Loaded
    /\ orig_data \in [Rows -> {Income(0), Income(1)}]
    /\ noise = NoNoise
    /\ pc = "set_applications"
    /\ pc_2 = "set_applications"

TwoAttacksNext ==
    \/ SetApplications
    \/ InitSolvers
    \/ AddKnowledge1
    \/ AddKnowledge2
    \/ CheckSolution
    \/ ReconstructData
    \/ CompareData
    \/ SetApplications_2
    \/ InitSolvers_2
    \/ CheckSolution_2
    \/ ReconstructData_2
    \/ CompareData_2

TwoAttacksSpec == TwoAttacksInit /\ [][TwoAttacksNext]_vars

DemoNext ==
    \/ Demo1
    \/ Demo2

DemoSpec == DemoInit /\ [][DemoNext]_vars

Next ==
    \/ SetApplications
    \/ InitSolvers
    \/ AddKnowledge1
    \/ AddKnowledge2
    \/ CheckSolution
    \/ ReconstructData
    \/ CompareData
    \/ CheckPrivate

Spec == Init /\ [][Next]_vars
\* ============================================================ properties

\* The true table as an assignment: the SymbolicRow i of a finest subgroup
\* takes the i-th smallest income of the subgroup.
TrueAssignment ==
    [v \in UNION {Range(elem_dict[key]) : key \in five_way_interactions} |->
        SortedIncomes(orig_data, SubgroupRows(v[1]))[v[2] + 1]]

Satisfiable(store) ==
    check_solution(store) # {Unsat}

Triple(a, b, c) ==
    (i_1 :> a) @@ (i_2 :> b) @@ (i_3 :> c)

\* The store of one chain of three with its minimum, median and mean.
ChainOfThree(lo, mid, total) ==
    Range(OrderingOf(<<i_1, i_2, i_3>>)
          \o MinApplication(<<i_1, i_2, i_3>>, RatInt(lo))
          \o MedianApplication(<<i_1, i_2, i_3>>, RatInt(mid))
          \o <<SumEq(<<i_1, i_2, i_3>>, RatInt(total))>>)

\* C2: a chain of three with released minimum, median and mean has exactly
\* one model, x_0 = min, x_1 = median, x_2 = 3 * mean - min - median; the
\* first demonstration cell prints 0, 50000, 130000.
C2_MinMedianMeanDetermineThree ==
    /\ pc = "demo2_1" => solved = Sat(Triple(0, 50000, 130000))
    /\ pc = "demo1" =>
          /\ Models(SingleAssignmentCell, DemoValues) = {Triple(0, 50000, 130000)}
          /\ LET s == SortedIncomes(orig_data, Rows)
             IN  Models(ChainOfThree(s[1], s[2], s[1] + s[2] + s[3]), WideValues)
                    = {Triple(s[1], s[2], s[3])}

C2_Witness ==
    /\ pc = "demo2_1"
    /\ solved.status = "sat"
    /\ solved.val[i_3] = 130000

\* After a call of the second demonstration cell.
AfterDemo2 ==
    pc \in {"demo2_2", "demo2_3", "demos_done"}

\* What the second demonstration cell fixes of a model, and what it leaves.
MinAndMeanOfThree ==
    /\ solved.status = "sat"
    /\ solved.val[i_1] = 0
    /\ solved.val[i_2] + solved.val[i_3] = 180000
    /\ 0 <= solved.val[i_2]
    /\ solved.val[i_2] <= solved.val[i_3]
    /\ \A c \in ManyAssignmentsCell :
          Holds(c, Triple(0, 50000, 130000)) /\ Holds(c, Triple(0, 90000, 90000))

\* C3, as stated: without the median the store is satisfiable, x_0 = 0,
\* x_1 + x_2 = 180000 with 0 <= x_1 <= x_2, and the valid pairs are
\* infinitely many -- so beyond every model lies one with a larger x_2.
C3_InfinitelyManyPairs ==
    AfterDemo2 =>
        /\ MinAndMeanOfThree
        /\ \E m \in Models(ManyAssignmentsCell, DemoValues) :
              m[i_3] > solved.val[i_3]

\* C3, amended: without the median the store is satisfiable, x_0 = 0,
\* x_1 + x_2 = 180000 with 0 <= x_1 <= x_2, the model is not unique, and the
\* valid pairs are finitely many: x_1 <= 90000 and x_2 <= 180000.
C3_SeveralPairsBounded ==
    AfterDemo2 =>
        /\ MinAndMeanOfThree
        /\ solved.val[i_2] <= 90000
        /\ solved.val[i_3] <= 180000

C3_Witness ==
    /\ pc = "demos_done"
    /\ solved = Sat(Triple(0, 0, 180000))

RatLess(a, b) ==
    a.num * b.den < b.num * a.den

\* A finest subgroup that passes the threshold and whose private minimum is
\* above its private maximum.
ContradictoryMinMax ==
    \E key \in five_way_interactions :
        /\ priv_dicts[key].count >= cfg.lowest_allowable_count
        /\ priv_dicts[key].count >= 1
        /\ RatLess(priv_dicts[key].max, priv_dicts[key].min)

\* C4: when the minimum and the maximum encoded for one subgroup are
\* released with min > max, the store is answered unsat, whatever else it
\* holds.
C4_MinAboveMaxIsUnsat ==
    (pc = "done" /\ cfg.use_mins /\ cfg.use_maxes /\ ContradictoryMinMax)
        => priv_model = Unsat

C4_Witness ==
    /\ pc = "done"
    /\ cfg = Config(1, TRUE, TRUE, TRUE)
    /\ ContradictoryMinMax
    /\ priv_model = Unsat
    /\ model.status = "sat"

\* A fact is true when some row of its subgroup has the income it names.
FactTrue(f) ==
    \E r \in SubgroupRows(f.group) : orig_data[r] = f.value

\* A model shows a fact when it gives a SymbolicRow of the subgroup the value.
ModelShows(m, f) ==
    \E v \in DOMAIN m.val : v[1] = f.group /\ m.val[v] = f.value

\* C5, as stated: adding "some row of G has income V" to a store that was
\* satisfiable leaves it satisfiable, and the model returned afterwards
\* holds a row of G equal to V.
C5_KnowledgePreservesSat ==
    /\ (pc = "knowledge_1" /\ Satisfiable(applications_to_solver(applications)))
          => Satisfiable(solver)
    /\ (pc = "reconstruct" /\ knowledge # {}) =>
          /\ model.status = "sat"
          /\ \A f \in knowledge : ModelShows(model, f)

\* C5, amended: adding "some row of G has income V" to a store the true table
\* satisfies leaves it satisfiable when some row of G does have income V,
\* and any model returned afterwards holds a row of G equal to V.
C5_TrueKnowledgePreservesSat ==
    /\ (pc = "reconstruct" /\ \A f \in knowledge : FactTrue(f))
          => model.status = "sat"
    /\ (pc = "reconstruct" /\ model.status = "sat")
          => \A f \in knowledge : ModelShows(model, f)

C5_Witness ==
    /\ pc = "reconstruct"
    /\ cfg.lowest_allowable_count = 1
    /\ orig_data[1] # orig_data[2]
    /\ Fact(group_1_def, orig_data[2]) \in knowledge
    /\ \A f \in knowledge : FactTrue(f)
    /\ model.status = "sat"
    /\ \A f \in knowledge : ModelShows(model, f)

FromPassing(d, ed) ==
    UNION {Range(Encode(key, d, ed, [cfg EXCEPT !.lowest_allowable_count = 1])) :
              key \in {k \in plausible_variable_combinations :
                          d[k].count >= cfg.lowest_allowable_count}}

ApplicationsOf(key, d, ed) ==
    Deduplicate(Encode(key, d, ed, cfg))

\* The subgroups released with count 1 that pass the threshold.
Singletons(d) ==
    {key \in plausible_variable_combinations :
        d[key].count = 1 /\ d[key].count >= cfg.lowest_allowable_count}

\* C8, as stated: for every subgroup of size 1 that passes the threshold the
\* deduplicated applications are a single equality, whatever kinds are
\* enabled -- for the exact releases and for the private ones alike.
C8_SingletonHasOneEquality ==
    pc = "init_solvers" =>
        /\ \A key \in Singletons(dicts) :
              Len(ApplicationsOf(key, dicts, elem_dict)) = 1
        /\ \A key \in Singletons(priv_dicts) :
              Len(ApplicationsOf(key, priv_dicts, priv_elem_dict)) = 1

\* C8, amended: for every subgroup of size 1 that passes the threshold the
\* deduplicated applications encoded from the exact releases are the single
\* equality x_0 == value, whatever kinds are enabled.
C8_ExactSingletonHasOneEquality ==
    pc = "init_solvers" =>
        \A key \in Singletons(dicts) :
            ApplicationsOf(key, dicts, elem_dict)
               = <<SumEq(<<ElemsOf(key, elem_dict)[1]>>,
                         RatInt(orig_data[CHOOSE r \in Rows : Matches(key, r)]))>>

C8_Witness ==
    /\ pc = "init_solvers"
    /\ cfg = Config(1, TRUE, TRUE, TRUE)
    /\ group_2_def \in Singletons(dicts)
    /\ Len(Encode(group_2_def, dicts, elem_dict, cfg)) = 4
    /\ Len(ApplicationsOf(group_2_def, dicts, elem_dict)) = 1

\* C9: when the store is unsatisfiable the attack reports 'unsat',
\* reconstruct returns nothing, and scoring is skipped.
C9_UnsatSkipsScoring ==
    (model = Unsat /\ pc \in {"compare", "check_private", "done"}) =>
        /\ printed[1] = "non-private: unsat"
        /\ DOMAIN recon_data = {}
        /\ scores = <<>>

FullySuppressed(r) ==
    \A c \in solver : SymbolicRowOf(r) \notin VarsOfConstraint(c)

KnowledgeOf(f) ==
    IF f.group = group_1_def THEN SomeRowEquals(f.value)
    ELSE UniqueRowEquals(f.value)

\* What an attack run alone derives from the shared releases and its own
\* configuration: its applications, and its store with its own facts.
AloneApplications(c) ==
    Deduplicate(ApplicationList(dicts, elem_dict, c))

AloneStore(apps, facts) ==
    Range(apps) \cup {KnowledgeOf(f) : f \in facts}

====
